---- MODULE Spec2Model ----
(* A model of timeline.py: Timeline, a step function over time kept as a     *)
(* table of (start, end, value) rows, with its validating constructors and   *)
(* the operators slice, merge_adjacent, map and cross_product.               *)
(*                                                                           *)
(* Timestamps are integers. A DataFrame is the sequence of its rows. The     *)
(* dtype and column-name assertions of _validate (lines 86-88) always pass   *)
(* for tables built from timestamp tuples and are not modelled.              *)
EXTENDS Integers, Sequences, FiniteSets, TLC

VARIABLES
    heap,   \* the objects alive in the interpreter: reference -> rows
    tl,     \* the caller's Timeline variables: name -> reference of its _df (0: unset)
    ext,    \* a mutable object the caller holds: a list given to from_segments
            \* or a table obtained from the df accessor (0: none)
    input,  \* the arguments of the call under study
    last    \* the last call made and what it returned or raised

vars == <<heap, tl, ext, input, last>>

(* ------------------------------ bounds ---------------------------------- *)
MaxTime == 5        \* timestamps of the Timelines given to slice, merge_adjacent, map
MaxStamp == 3       \* timestamps elsewhere
MaxSegs == 3        \* rows of a Timeline drawn as an operator's input
MaxListLen == 2     \* length of a raw segment list given to a constructor
MaxN == 2           \* number of Timelines given to cross_product

Time == 0..MaxTime
Stamp == 0..MaxStamp

(* ------------------------------ values ---------------------------------- *)
(* A value is a scalar or a flat tuple of scalars (what cross_product        *)
(* builds). NA is pandas' pd.NA, the default gap_value.                      *)
NA == 0
Scalar(v) == [tup |-> FALSE, e |-> <<v>>]
Tuple(es) == [tup |-> TRUE, e |-> es]
ScalarValues == {Scalar(v) : v \in {NA, 1, 2}}

Seg(s, e, v) == [start |-> s, end |-> e, value |-> v]

(* What a call gives back: a Timeline's rows, or the exception raised.       *)
Returned(df) == [exc |-> "none", msg |-> "", df |-> df]
Raised(exc, msg) == [exc |-> exc, msg |-> msg, df |-> <<>>]

MsgEmpty == "Timeline must have at least one segment"
MsgSorted == "Segments must be sorted by start time"
MsgContiguous == "Segments must be contiguous"
MsgInterval == "Start must be before end"
MsgStart == "All timelines must start at the same time"
MsgEnd == "All timelines must end at the same time"

(* ----------------------------- _validate -------------------------------- *)
(* pandas' Series.is_monotonic_increasing: non-decreasing, equal allowed.    *)
IsMonotonicIncreasing(df) ==
    \A i \in 1..(Len(df) - 1) : df[i].start <= df[i + 1].start

EndsMeetStarts(df) ==
    Len(df) <= 1 \/ \A i \in 1..(Len(df) - 1) : df[i].end = df[i + 1].start

StartBeforeEnd(df) == \A i \in 1..Len(df) : df[i].start < df[i].end

ValidateNoContiguity(df) ==
    IF ~(Len(df) > 0) THEN MsgEmpty
    ELSE IF ~IsMonotonicIncreasing(df) THEN MsgSorted
    ELSE IF ~StartBeforeEnd(df) THEN MsgInterval
    ELSE ""

ValidateIntervalFirst(df) ==
    IF ~(Len(df) > 0) THEN MsgEmpty
    ELSE IF ~IsMonotonicIncreasing(df) THEN MsgSorted
    ELSE IF ~StartBeforeEnd(df) THEN MsgInterval
    ELSE IF ~EndsMeetStarts(df) THEN MsgContiguous
    ELSE ""

(* The message of the first assertion that fails, "" when all pass.          *)
Validate(df) ==
    IF ~(Len(df) > 0) THEN MsgEmpty
    ELSE IF ~IsMonotonicIncreasing(df) THEN MsgSorted
    ELSE IF ~EndsMeetStarts(df) THEN MsgContiguous
    ELSE IF ~StartBeforeEnd(df) THEN MsgInterval
    ELSE ""

(* ---------------------------- constructors ------------------------------ *)
FromSegments(segments) ==
    LET err == Validate(segments)
    IN  IF err # "" THEN Raised("AssertionError", err) ELSE Returned(segments)

FromDataframe(df) ==
    LET err == Validate(df)
    IN  IF err # "" THEN Raised("AssertionError", err) ELSE Returned(df)

(* sorted(segments, key=lambda x: x[0]): stable, by start only.              *)
InsertByStart(sorted, x) ==
    LET k == Cardinality({i \in 1..Len(sorted) : sorted[i].start <= x.start})
    IN  SubSeq(sorted, 1, k) \o <<x>> \o SubSeq(sorted, k + 1, Len(sorted))

RECURSIVE SortedByStart(_)
SortedByStart(segments) ==
    IF segments = <<>> THEN <<>>
    ELSE InsertByStart(SortedByStart(SubSeq(segments, 1, Len(segments) - 1)),
                       segments[Len(segments)])

RECURSIVE FillGaps(_, _, _)
FillGaps(segments, gap_value, filled) ==
    IF segments = <<>> THEN filled
    ELSE LET seg == Head(segments)
             prev == filled[Len(filled)]
             gapped == IF filled # <<>> /\ prev.end < seg.start
                       THEN Append(filled, Seg(prev.end, seg.start, gap_value))
                       ELSE filled
         IN  FillGaps(Tail(segments), gap_value, Append(gapped, seg))

FromSegmentsWithGaps(segments, gap_value) ==
    IF segments = <<>> THEN Raised("ValueError", MsgEmpty)
    ELSE FromSegments(FillGaps(SortedByStart(segments), gap_value, <<>>))

(* ------------------------------ accessors ------------------------------- *)
TimelineStart(df) == df[1].start
TimelineEnd(df) == df[Len(df)].end

(* -------------------------------- slice --------------------------------- *)
OverlapsClosed(row, start, end) == row.end >= start /\ row.start <= end

(* The mask of slice: the rows overlapping [start, end).                     *)
Overlaps(row, start, end) == row.end > start /\ row.start < end

SliceNoRightClip(df, start, end) ==
    LET sliced == SelectSeq(df, LAMBDA row : Overlaps(row, start, end))
        left == IF sliced[1].start < start
                THEN [sliced EXCEPT ![1].start = start] ELSE sliced
    IN  Returned(IF sliced = <<>> THEN sliced ELSE left)

Slice(df, start, end) ==
    LET sliced == SelectSeq(df, LAMBDA row : Overlaps(row, start, end))
        n == Len(sliced)
        left == IF sliced[1].start < start
                THEN [sliced EXCEPT ![1].start = start] ELSE sliced
        right == IF left[n].end > end
                 THEN [left EXCEPT ![n].end = end] ELSE left
    IN  Returned(IF sliced = <<>> THEN sliced ELSE right)

(* ---------------------------- merge_adjacent ---------------------------- *)
MsgNA == "boolean value of NA is ambiguous"

(* Python's x == y between two elements of tuples: identity first, then      *)
(* ==, whose result is turned into a bool.                                   *)
RECURSIVE TupleEq(_, _, _)
TupleEq(a, b, i) ==
    IF i > Len(a) \/ i > Len(b) THEN (IF Len(a) = Len(b) THEN "True" ELSE "False")
    ELSE IF a[i] = b[i] THEN TupleEq(a, b, i + 1)
    ELSE IF a[i] = NA \/ b[i] = NA THEN "TypeError"
    ELSE "False"

(* The truth of `a == b` as the if statement of merge_adjacent takes it:     *)
(* pd.NA == x is pd.NA, and bool(pd.NA) raises TypeError.                    *)
PyEq(a, b) ==
    IF a.tup /\ b.tup THEN TupleEq(a.e, b.e, 1)
    ELSE IF a.tup \/ b.tup THEN "False"
    ELSE IF a.e[1] = NA \/ b.e[1] = NA THEN "TypeError"
    ELSE IF a.e[1] = b.e[1] THEN "True"
    ELSE "False"

RECURSIVE MergeRows(_, _)
MergeRows(rows, merged) ==
    IF rows = <<>> THEN Returned(merged)
    ELSE LET row == Head(rows)
             m == Len(merged)
             eq == IF merged # <<>> THEN PyEq(merged[m].value, row.value) ELSE "False"
         IN  IF eq = "TypeError" THEN Raised("TypeError", MsgNA)
             ELSE IF eq = "True"
                  THEN MergeRows(Tail(rows),
                           [merged EXCEPT ![m] = Seg(merged[m].start, row.end, row.value)])
             ELSE MergeRows(Tail(rows), Append(merged, row))

MergeAdjacent(df) ==
    LET m == MergeRows(df, <<>>)
    IN  IF m.exc # "none" THEN m ELSE FromSegments(m.df)

(* --------------------------------- map ---------------------------------- *)
(* The functions given to map: the identity, a constant function, and a      *)
(* lookup {1: 2}[x], which raises KeyError for any other value.              *)
Funcs == {"identity", "constant", "lookup"}

Apply(func, v) ==
    IF func = "identity" THEN [ok |-> TRUE, v |-> v]
    ELSE IF func = "constant" THEN [ok |-> TRUE, v |-> Scalar(1)]
    ELSE IF v = Scalar(1) THEN [ok |-> TRUE, v |-> Scalar(2)]
    ELSE [ok |-> FALSE, v |-> v]

Map(df, func) ==
    IF \E i \in 1..Len(df) : ~Apply(func, df[i].value).ok
    THEN Raised("KeyError", "func")
    ELSE FromDataframe([i \in 1..Len(df) |->
                           [df[i] EXCEPT !.value = Apply(func, df[i].value).v]])

(* ----------------------------- cross_product ---------------------------- *)
Min(S) == CHOOSE x \in S : \A y \in S : x <= y

RECURSIVE Sorted(_)
Sorted(S) == IF S = {} THEN <<>> ELSE <<Min(S)>> \o Sorted(S \ {Min(S)})

Boundaries(timelines) ==
    UNION {{timelines[j][i].start : i \in 1..Len(timelines[j])}
             \cup {timelines[j][i].end : i \in 1..Len(timelines[j])}
           : j \in 1..Len(timelines)}

RECURSIVE AdvanceStrict(_, _, _)
AdvanceStrict(df, idx, seg_start) ==
    IF idx < Len(df) /\ df[idx + 1].start < seg_start
    THEN AdvanceStrict(df, idx + 1, seg_start) ELSE idx

(* The pointer loop: move on while the next row starts at or before the      *)
(* boundary (idx counts rows from 1).                                        *)
RECURSIVE Advance(_, _, _)
Advance(df, idx, seg_start) ==
    IF idx < Len(df) /\ df[idx + 1].start <= seg_start
    THEN Advance(df, idx + 1, seg_start) ELSE idx

RECURSIVE Sweep(_, _, _, _, _)
Sweep(dfs, boundaries, i, idxs, segments) ==
    IF i > Len(boundaries) - 1 THEN segments
    ELSE LET seg_start == boundaries[i]
             seg_end == boundaries[i + 1]
             moved == [j \in 1..Len(dfs) |-> Advance(dfs[j], idxs[j], seg_start)]
             values == [j \in 1..Len(dfs) |-> dfs[j][moved[j]].value.e[1]]
         IN  Sweep(dfs, boundaries, i + 1, moved,
                   Append(segments, Seg(seg_start, seg_end, Tuple(values))))

CrossProductEndFirst(timelines) ==
    LET n == Len(timelines)
    IN  IF \E j \in 1..n : timelines[j] = <<>>
        THEN Raised("IndexError", "single positional indexer is out-of-bounds")
        ELSE IF ~(\A j \in 1..n : TimelineEnd(timelines[j]) = TimelineEnd(timelines[1]))
        THEN Raised("AssertionError", MsgEnd)
        ELSE IF ~(\A j \in 1..n : TimelineStart(timelines[j]) = TimelineStart(timelines[1]))
        THEN Raised("AssertionError", MsgStart)
        ELSE FromSegments(Sweep(timelines, Sorted(Boundaries(timelines)), 1,
                                [j \in 1..n |-> 1], <<>>))

(* The inputs are Timelines of scalar values. tl.start and tl.end raise      *)
(* IndexError on a Timeline without rows.                                    *)
CrossProduct(timelines) ==
    LET n == Len(timelines)
    IN  IF \E j \in 1..n : timelines[j] = <<>>
        THEN Raised("IndexError", "single positional indexer is out-of-bounds")
        ELSE IF ~(\A j \in 1..n : TimelineStart(timelines[j]) = TimelineStart(timelines[1]))
        THEN Raised("AssertionError", MsgStart)
        ELSE IF ~(\A j \in 1..n : TimelineEnd(timelines[j]) = TimelineEnd(timelines[1]))
        THEN Raised("AssertionError", MsgEnd)
        ELSE FromSegments(Sweep(timelines, Sorted(Boundaries(timelines)), 1,
                                [j \in 1..n |-> 1], <<>>))

(* ------------------------- inputs of the calls -------------------------- *)
RawSegs == {Seg(s, e, v) : s \in Stamp, e \in Stamp, v \in ScalarValues}

SeqsUpTo(S, n) == UNION {[1..k -> S] : k \in 0..n}

NoArgs == [none |-> TRUE]
NoCall == [op |-> "none", args |-> NoArgs, res |-> Returned(<<>>)]
Call(op, args, res) == [op |-> op, args |-> args, res |-> res]

(* The Timelines from_segments accepts: the row boundaries it validates,     *)
(* with timestamps in T and every assignment of values from V to the rows.   *)
(* A list from_segments accepts is an accepted list (or none) followed by    *)
(* one more segment, so the lists of n segments are found from those of      *)
(* n - 1.                                                                    *)
RECURSIVE Shapes(_, _)
Shapes(T, n) ==
    {x \in {Append(b, Seg(s, e, Scalar(1))) :
               b \in (IF n = 1 THEN {<<>>} ELSE Shapes(T, n - 1)), s \in T, e \in T} :
        FromSegments(x).exc = "none"}
TimelinesOver(T, V) ==
    UNION {{[i \in 1..Len(b) |-> Seg(b[i].start, b[i].end, vs[i])] : vs \in [1..Len(b) -> V]}
           : b \in UNION {Shapes(T, n) : n \in 1..MaxSegs}}
CrossValues == {Scalar(1), Scalar(2)}
PairValues == {Tuple(<<a, b>>) : a \in {NA, 1}, b \in {NA, 1}}

(* ------------- the constructors applied to arbitrary lists -------------- *)
InitCtor ==
    /\ heap = <<>>
    /\ tl = <<>>
    /\ ext = 0
    /\ input \in [segs : SeqsUpTo(RawSegs, MaxListLen)]
    /\ last = NoCall

CallFromSegments ==
    /\ last.op = "none"
    /\ last' = Call("from_segments", NoArgs, FromSegments(input.segs))
    /\ UNCHANGED <<heap, tl, ext, input>>

CallFromSegmentsWithGaps ==
    /\ last.op = "none"
    /\ \E gap_value \in ScalarValues :
          last' = Call("from_segments_with_gaps", [gap_value |-> gap_value],
                       FromSegmentsWithGaps(input.segs, gap_value))
    /\ UNCHANGED <<heap, tl, ext, input>>

NextCtor == CallFromSegments \/ CallFromSegmentsWithGaps

SpecCtor == InitCtor /\ [][NextCtor]_vars

(* ------------------------- the four invariants -------------------------- *)
NonEmpty(df) == Len(df) >= 1
StrictlyIncreasingStarts(df) ==
    \A i \in 1..Len(df), j \in 1..Len(df) : i < j => df[i].start < df[j].start
Contiguous(df) == \A i \in 1..(Len(df) - 1) : df[i].end = df[i + 1].start
ProperIntervals(df) == \A i \in 1..Len(df) : df[i].start < df[i].end
FourInvariants(df) ==
    NonEmpty(df) /\ StrictlyIncreasingStarts(df) /\ Contiguous(df) /\ ProperIntervals(df)

(* C2: from_segments(segs) succeeds exactly when segs is non-empty, has      *)
(* strictly increasing starts, is contiguous and has start < end in every    *)
(* segment; the Timeline then holds exactly segs, in the given order, and    *)
(* its start and end are the first start and the last end.                   *)
C2_FromSegmentsIffValid ==
    last.op = "from_segments" =>
        /\ (last.res.exc = "none") <=> FourInvariants(input.segs)
        /\ last.res.exc = "none" =>
              /\ last.res.df = input.segs
              /\ TimelineStart(last.res.df) = input.segs[1].start
              /\ TimelineEnd(last.res.df) = input.segs[Len(input.segs)].end

C2_Witness ==
    /\ last.op = "from_segments"
    /\ last.res.exc = "none"
    /\ Len(input.segs) = 2

(* The error the four invariants name, checked in the order 1, 2, 3, 4.      *)
FirstViolated(df) ==
    IF ~NonEmpty(df) THEN MsgEmpty
    ELSE IF ~StrictlyIncreasingStarts(df) THEN MsgSorted
    ELSE IF ~Contiguous(df) THEN MsgContiguous
    ELSE IF ~ProperIntervals(df) THEN MsgInterval
    ELSE ""

(* C6 as stated: from_segments fails with the error of the first violated    *)
(* invariant in the order non-empty, strictly increasing starts, contiguous, *)
(* start < end; starts that are not strictly increasing always give the      *)
(* "sorted" error.                                                           *)
C6_Original ==
    last.op = "from_segments" =>
        last.res.msg = FirstViolated(input.segs)

NonDecreasingStarts(df) ==
    \A i \in 1..(Len(df) - 1) : ~(df[i + 1].start < df[i].start)

(* C6 amended: the second check passes equal starts. from_segments fails     *)
(* with the first failure in the order non-empty, non-decreasing starts,     *)
(* contiguous, start < end: a decreasing pair of starts gives "sorted";      *)
(* equal consecutive starts without a decreasing pair give "contiguous" or   *)
(* "start before end", never "sorted".                                       *)
C6_ErrorOrder ==
    last.op = "from_segments" =>
        LET segs == input.segs
            equalPair == \E i \in 1..(Len(segs) - 1) : segs[i].start = segs[i + 1].start
        IN  /\ ~NonEmpty(segs) => last.res.msg = MsgEmpty
            /\ NonEmpty(segs) /\ ~NonDecreasingStarts(segs) => last.res.msg = MsgSorted
            /\ NonEmpty(segs) /\ NonDecreasingStarts(segs) /\ ~Contiguous(segs)
                  => last.res.msg = MsgContiguous
            /\ NonEmpty(segs) /\ NonDecreasingStarts(segs) /\ Contiguous(segs)
                  /\ ~ProperIntervals(segs) => last.res.msg = MsgInterval
            /\ NonDecreasingStarts(segs) /\ equalPair
                  => last.res.msg \in {MsgContiguous, MsgInterval}
            /\ last.res.msg # "" => last.res.exc = "AssertionError"

C6_Witness ==
    /\ last.op = "from_segments"
    /\ Len(input.segs) = 2
    /\ input.segs[1].start = input.segs[2].start
    /\ input.segs[1].end = input.segs[2].start
    /\ last.res.msg = MsgInterval

(* ---------------- the operators applied to one Timeline ----------------- *)
InitOps ==
    /\ heap = <<>>
    /\ tl = <<>>
    /\ ext = 0
    /\ input \in [t : TimelinesOver(Time, ScalarValues) \cup TimelinesOver(Time, PairValues)]
    /\ last = NoCall

CallSlice ==
    /\ last.op = "none"
    /\ \E start \in Time, end \in Time :
          last' = Call("slice", [start |-> start, end |-> end],
                       Slice(input.t, start, end))
    /\ UNCHANGED <<heap, tl, ext, input>>

(* slice with the same bounds, on the Timeline slice has just returned.      *)
CallSliceAgain ==
    /\ last.op = "slice"
    /\ last' = Call("slice_again",
                    [start |-> last.args.start, end |-> last.args.end,
                     first |-> last.res.df],
                    Slice(last.res.df, last.args.start, last.args.end))
    /\ UNCHANGED <<heap, tl, ext, input>>

CallMergeAdjacent ==
    /\ last.op = "none"
    /\ last' = Call("merge_adjacent", NoArgs, MergeAdjacent(input.t))
    /\ UNCHANGED <<heap, tl, ext, input>>

CallMap ==
    /\ last.op = "none"
    /\ \E func \in Funcs :
          last' = Call("map", [func |-> func], Map(input.t, func))
    /\ UNCHANGED <<heap, tl, ext, input>>

NextOps == CallSlice \/ CallSliceAgain \/ CallMergeAdjacent \/ CallMap

SpecOps == InitOps /\ [][NextOps]_vars

(* The value of the step function df at instant x.                           *)
Covers(df, x) == \E i \in 1..Len(df) : df[i].start <= x /\ x < df[i].end
ValueAt(df, x) ==
    df[CHOOSE i \in 1..Len(df) : df[i].start <= x /\ x < df[i].end].value
Max2(a, b) == IF a >= b THEN a ELSE b
Min2(a, b) == IF a <= b THEN a ELSE b

(* C4: for lo < hi with [lo, hi) meeting the span [S, E), slice(lo, hi)      *)
(* returns exactly the segments with end > lo and start < hi, in order and   *)
(* with their values, the first start replaced by max(lo, start) and the     *)
(* last end by min(hi, end); its span is [max(lo, S), min(hi, E)) and at     *)
(* every instant of it the value is the original's.                          *)
C4_SliceSelectsAndClips ==
    (last.op = "slice" /\ last.args.start < last.args.end
        /\ last.args.start < TimelineEnd(input.t)
        /\ TimelineStart(input.t) < last.args.end) =>
        LET t == input.t
            lo == last.args.start
            hi == last.args.end
            r == last.res.df
            sel == {i \in 1..Len(t) : t[i].end > lo /\ t[i].start < hi}
            first == Min(sel)
            n == Cardinality(sel)
        IN  /\ last.res.exc = "none"
            /\ Len(r) = n
            /\ n >= 1
            /\ sel = first..(first + n - 1)
            /\ \A k \in 1..n :
                  /\ r[k].value = t[first + k - 1].value
                  /\ r[k].start = IF k = 1 THEN Max2(lo, t[first].start)
                                  ELSE t[first + k - 1].start
                  /\ r[k].end = IF k = n THEN Min2(hi, t[first + n - 1].end)
                                ELSE t[first + k - 1].end
            /\ TimelineStart(r) = Max2(lo, TimelineStart(t))
            /\ TimelineEnd(r) = Min2(hi, TimelineEnd(t))
            /\ \A x \in Time :
                  (TimelineStart(r) <= x /\ x < TimelineEnd(r)) =>
                      Covers(r, x) /\ Covers(t, x) /\ ValueAt(r, x) = ValueAt(t, x)

C4_Witness ==
    /\ last.op = "slice"
    /\ Len(input.t) = 3
    /\ Len(last.res.df) = 3
    /\ last.res.df[1].start = last.args.start
    /\ last.res.df[1].start > input.t[1].start
    /\ last.res.df[3].end = last.args.end
    /\ last.res.df[3].end < input.t[3].end
    /\ last.res.df[2] = input.t[2]

(* C5 as stated: merge_adjacent succeeds on every valid Timeline, keeps the  *)
(* span and the value at every instant, leaves no two consecutive segments   *)
(* with equal values, and each output segment is a maximal run of equal      *)
(* values of the input.                                                      *)
C5_MergeAdjacent ==
    last.op = "merge_adjacent" =>
        /\ last.res.exc = "none"
        /\ LET t == input.t
               r == last.res.df
           IN  /\ TimelineStart(r) = TimelineStart(t)
               /\ TimelineEnd(r) = TimelineEnd(t)
               /\ \A x \in Time : Covers(t, x) => Covers(r, x) /\ ValueAt(r, x) = ValueAt(t, x)
               /\ \A k \in 1..(Len(r) - 1) : r[k].value # r[k + 1].value
               /\ \A k \in 1..Len(r) : \E i \in 1..Len(t), j \in 1..Len(t) :
                     /\ i <= j
                     /\ r[k].start = t[i].start
                     /\ r[k].end = t[j].end
                     /\ \A m \in i..j : t[m].value = r[k].value

(* The same statement for the Timelines none of whose values is or holds     *)
(* pd.NA: on these merge_adjacent does what C5 says.                         *)
HasNA(df) == \E i \in 1..Len(df) : \E k \in 1..Len(df[i].value.e) : df[i].value.e[k] = NA

MergeAdjacentWithoutNA ==
    (last.op = "merge_adjacent" /\ ~HasNA(input.t)) =>
        /\ last.res.exc = "none"
        /\ LET t == input.t
               r == last.res.df
           IN  /\ TimelineStart(r) = TimelineStart(t)
               /\ TimelineEnd(r) = TimelineEnd(t)
               /\ \A x \in Time : Covers(t, x) => Covers(r, x) /\ ValueAt(r, x) = ValueAt(t, x)
               /\ \A k \in 1..(Len(r) - 1) : r[k].value # r[k + 1].value

(* C7 as stated: for S <= a <= b <= E, slicing the result of slice(a, b)     *)
(* with (a, b) again gives exactly the same segments.                        *)
C7_SliceIdempotent ==
    (last.op = "slice_again"
        /\ TimelineStart(input.t) <= last.args.start
        /\ last.args.start <= last.args.end
        /\ last.args.end <= TimelineEnd(input.t)) =>
        last.res.df = last.args.first

(* C8 as stated: with lo > hi the filter selects no segment and the result   *)
(* has zero segments.                                                        *)
C8_Original ==
    (last.op = "slice" /\ last.args.start > last.args.end) =>
        Len(last.res.df) = 0

(* C8 amended: with lo > hi the filter selects exactly the segments s with   *)
(* s.start < hi and s.end > lo, of which there is at most one; the result    *)
(* has zero segments when there is none, and otherwise is the single         *)
(* segment (lo, hi, s.value), whose start is after its end.                  *)
C8_InvertedBounds ==
    (last.op = "slice" /\ last.args.start > last.args.end) =>
        LET t == input.t
            lo == last.args.start
            hi == last.args.end
            r == last.res.df
            sel == {i \in 1..Len(t) : t[i].start < hi /\ lo < t[i].end}
        IN  /\ Cardinality(sel) <= 1
            /\ Len(r) = Cardinality(sel)
            /\ \A i \in sel : r = <<Seg(lo, hi, t[i].value)>>

C8_Witness ==
    /\ last.op = "slice"
    /\ last.args.start > last.args.end
    /\ Len(last.res.df) = 1
    /\ last.res.df[1].start > last.res.df[1].end

C8_WitnessEmpty ==
    /\ last.op = "slice"
    /\ last.args.start > last.args.end
    /\ Len(last.res.df) = 0

(* ------------- cross_product applied to a tuple of Timelines ------------ *)
InitCross ==
    /\ heap = <<>>
    /\ tl = <<>>
    /\ ext = 0
    /\ \E n \in 0..MaxN :
          input \in [timelines : [1..n -> TimelinesOver(Stamp, CrossValues)]]
    /\ last = NoCall

CallCrossProduct ==
    /\ last.op = "none"
    /\ last' = Call("cross_product", NoArgs, CrossProduct(input.timelines))
    /\ UNCHANGED <<heap, tl, ext, input>>

NextCross == CallCrossProduct

SpecCross == InitCross /\ [][NextCross]_vars

SameStart(timelines) ==
    \A j \in 1..Len(timelines) : timelines[j][1].start = timelines[1][1].start
SameEnd(timelines) ==
    \A j \in 1..Len(timelines) :
        timelines[j][Len(timelines[j])].end = timelines[1][Len(timelines[1])].end

(* C3: for N >= 1 valid Timelines with the same total start and the same     *)
(* total end, cross_product succeeds; the boundaries of its result are the   *)
(* sorted union of all starts and ends of the inputs, one segment per        *)
(* consecutive pair, and the value on each segment is the tuple of the       *)
(* values of the inputs' segments containing it, in input order.             *)
C3_CrossProduct ==
    (last.op = "cross_product" /\ Len(input.timelines) >= 1
        /\ SameStart(input.timelines) /\ SameEnd(input.timelines)) =>
        LET ts == input.timelines
            r == last.res.df
            bs == Boundaries(ts)
        IN  /\ last.res.exc = "none"
            /\ FourInvariants(r)
            /\ Len(r) = Cardinality(bs) - 1
            /\ {r[k].start : k \in 1..Len(r)} \cup {r[k].end : k \in 1..Len(r)} = bs
            /\ \A k \in 1..Len(r) :
                  /\ ~(\E b \in bs : r[k].start < b /\ b < r[k].end)
                  /\ r[k].value.tup
                  /\ Len(r[k].value.e) = Len(ts)
                  /\ \A j \in 1..Len(ts) :
                        /\ Cardinality({i \in 1..Len(ts[j]) :
                              ts[j][i].start <= r[k].start /\ r[k].end <= ts[j][i].end}) = 1
                        /\ \E i \in 1..Len(ts[j]) :
                              /\ ts[j][i].start <= r[k].start
                              /\ r[k].end <= ts[j][i].end
                              /\ ts[j][i].value = Scalar(r[k].value.e[j])

C3_Witness ==
    /\ last.op = "cross_product"
    /\ last.res.exc = "none"
    /\ Len(input.timelines) = 2
    /\ Len(input.timelines[1]) = 2
    /\ Len(input.timelines[2]) = 3
    /\ Len(last.res.df) = 3
    /\ input.timelines[1][1].value # input.timelines[1][2].value

(* C9: when the total starts are not all equal, cross_product fails with     *)
(* the error naming the start, also when the ends differ too; when the       *)
(* starts are equal and the ends are not, it fails with the error naming     *)
(* the end; no Timeline is returned in either case.                          *)
C9_BoundMismatch ==
    last.op = "cross_product" =>
        /\ ~SameStart(input.timelines) =>
              /\ last.res.exc = "AssertionError"
              /\ last.res.msg = MsgStart
              /\ last.res.df = <<>>
        /\ (SameStart(input.timelines) /\ ~SameEnd(input.timelines)) =>
              /\ last.res.exc = "AssertionError"
              /\ last.res.msg = MsgEnd
              /\ last.res.df = <<>>

C9_Witness ==
    /\ last.op = "cross_product"
    /\ ~SameStart(input.timelines)
    /\ ~SameEnd(input.timelines)
    /\ last.res.msg = MsgStart

(* ------------------ sequences of calls on live objects ------------------ *)
(* The caller holds two Timeline variables, cur and res, and at most one     *)
(* mutable object of its own (ext), which it lets go at its next call.       *)
(* Every call binds what it returns to res; an exception leaves the          *)
(* variables as they were. An object is its rows now and, for reference,     *)
(* the rows it was created with (born).                                      *)
Slots == {"cur", "res"}

(* A new object holding rows; no object of h changes.                        *)
Alloc(h, rows) == [h |-> Append(h, [rows |-> rows, born |-> rows]), r |-> Len(h) + 1]

(* DataFrame.copy()                                                          *)
DataFrameCopy(h, df) == Alloc(h, h[df].rows)

(* Timeline.__init__: self._df = df.copy()                                   *)
TimelineInit(h, df) == DataFrameCopy(h, df)

DfAlias(h, self) == [h |-> h, r |-> self]

(* The df property: return self._df.copy()                                   *)
Df(h, self) == DataFrameCopy(h, self)

(* The Timeline a validating path builds from the rows it accepted: a new    *)
(* table, then Timeline(df); nothing when it raised.                         *)
Construct(h, res) ==
    IF res.exc # "none" THEN [h |-> h, r |-> 0]
    ELSE LET df == Alloc(h, res.df) IN TimelineInit(df.h, df.r)

(* slice on objects: the masked rows are copied, the copy is clipped in      *)
(* place, and Timeline(sliced) copies it again.                              *)
SliceObj(h, self, start, end) ==
    LET sliced == Alloc(h, SelectSeq(h[self].rows, LAMBDA row : Overlaps(row, start, end)))
        clipped == [sliced.h EXCEPT ![sliced.r].rows = Slice(h[self].rows, start, end).df]
    IN  TimelineInit(clipped, sliced.r)

(* Objects no variable refers to are gone; the references left are numbered  *)
(* in the order cur, res, ext.                                               *)
Renumber(t, e) ==
    LET c == t["cur"]
        r == t["res"]
        nc == IF c = 0 THEN 0 ELSE 1
        nr == IF r = 0 THEN 0 ELSE IF r = c THEN nc ELSE nc + 1
        two == IF nr > nc THEN nr ELSE nc
        ne == IF e = 0 THEN 0 ELSE IF e = c THEN nc ELSE IF e = r THEN nr ELSE two + 1
    IN  [cur |-> nc, res |-> nr, ext |-> ne, n |-> IF ne > two THEN ne ELSE two]

Collect(h, t, e) ==
    LET m == Renumber(t, e)
    IN  [k \in 1..m.n |-> IF k = m.cur THEN h[t["cur"]]
                          ELSE IF k = m.res THEN h[t["res"]]
                          ELSE h[e]]

(* The objects and variables after a step that leaves heap h, the Timeline   *)
(* variables t and the caller's object e.                                    *)
Becomes(h, t, e) ==
    [heap |-> Collect(h, t, e),
     tl |-> [s \in Slots |-> Renumber(t, e)[s]],
     ext |-> Renumber(t, e).ext]

(* The same after a call that returned object r of heap h (r = 0: it         *)
(* raised), made with the variables t.                                       *)
Bind(h, t, r, e) == Becomes(h, IF r = 0 THEN t ELSE [t EXCEPT !["res"] = r], e)

PoolSegs == {Seg(s, e, Scalar(1)) : s \in Stamp, e \in Stamp}
PoolLists == SeqsUpTo({x \in PoolSegs : x.start < x.end}, MaxListLen)

Init ==
    /\ heap = <<>>
    /\ tl = [s \in Slots |-> 0]
    /\ ext = 0
    /\ input = NoArgs
    /\ last = NoCall

(* The caller builds a list and gives it to from_segments; it keeps the      *)
(* list when a Timeline comes back.                                          *)
DoFromSegments ==
    /\ \E segs \in PoolLists :
       \E made \in {Construct(Alloc(heap, segs).h, FromSegments(segs))} :
       \E now \in {Bind(made.h, tl, made.r,
                        IF made.r = 0 THEN 0 ELSE Alloc(heap, segs).r)} :
          heap' = now.heap /\ tl' = now.tl /\ ext' = now.ext
    /\ UNCHANGED <<input, last>>

DoFromSegmentsWithGaps ==
    /\ \E segs \in PoolLists :
       \E made \in {Construct(Alloc(heap, segs).h,
                              FromSegmentsWithGaps(segs, Scalar(NA)))} :
       \E now \in {Bind(made.h, tl, made.r,
                        IF made.r = 0 THEN 0 ELSE Alloc(heap, segs).r)} :
          heap' = now.heap /\ tl' = now.tl /\ ext' = now.ext
    /\ UNCHANGED <<input, last>>

DoSlice ==
    /\ tl["cur"] # 0
    /\ \E start \in Stamp, end \in Stamp :
       \E made \in {SliceObj(heap, tl["cur"], start, end)} :
       \E now \in {Bind(made.h, tl, made.r, 0)} :
          heap' = now.heap /\ tl' = now.tl /\ ext' = now.ext
    /\ UNCHANGED <<input, last>>

DoMergeAdjacent ==
    /\ tl["cur"] # 0
    /\ \E made \in {Construct(heap, MergeAdjacent(heap[tl["cur"]].rows))} :
       \E now \in {Bind(made.h, tl, made.r, 0)} :
          heap' = now.heap /\ tl' = now.tl /\ ext' = now.ext
    /\ UNCHANGED <<input, last>>

DoMap ==
    /\ tl["cur"] # 0
    /\ \E func \in Funcs :
       \E made \in {Construct(heap, Map(heap[tl["cur"]].rows, func))} :
       \E now \in {Bind(made.h, tl, made.r, 0)} :
          heap' = now.heap /\ tl' = now.tl /\ ext' = now.ext
    /\ UNCHANGED <<input, last>>

(* cross_product over a tuple of the caller's Timelines, all of scalars.     *)
DoCrossProduct ==
    /\ \E names \in SeqsUpTo(Slots, MaxN) :
          /\ \A j \in 1..Len(names) :
                /\ tl[names[j]] # 0
                /\ \A i \in 1..Len(heap[tl[names[j]]].rows) :
                      ~heap[tl[names[j]]].rows[i].value.tup
          /\ \E made \in {Construct(heap,
                 CrossProduct([j \in 1..Len(names) |-> heap[tl[names[j]]].rows]))} :
             \E now \in {Bind(made.h, tl, made.r, 0)} :
                heap' = now.heap /\ tl' = now.tl /\ ext' = now.ext
    /\ UNCHANGED <<input, last>>

(* The caller reads the df property of one of its Timelines.                 *)
GetDf ==
    /\ \E s \in Slots :
          /\ tl[s] # 0
          /\ \E got \in {Df(heap, tl[s])} :
             \E now \in {Becomes(got.h, tl, got.r)} :
                heap' = now.heap /\ tl' = now.tl /\ ext' = now.ext
    /\ UNCHANGED <<input, last>>

(* The caller changes its own object in place: it removes the last row, or   *)
(* overwrites the end of the first row with its start.                       *)
MutateExt ==
    /\ ext # 0
    /\ heap[ext].rows # <<>>
    /\ \/ heap' = [heap EXCEPT ![ext].rows = SubSeq(@, 1, Len(@) - 1)]
       \/ /\ heap[ext].rows[1].end # heap[ext].rows[1].start
          /\ heap' = [heap EXCEPT ![ext].rows[1].end = heap[ext].rows[1].start]
    /\ UNCHANGED <<tl, ext, input, last>>

(* cur = res: the caller goes on with the Timeline it was given (one of      *)
(* scalars: what cross_product returned stays in res).                       *)
Keep ==
    /\ tl["res"] # 0
    /\ tl["cur"] # tl["res"]
    /\ \A i \in 1..Len(heap[tl["res"]].rows) : ~heap[tl["res"]].rows[i].value.tup
    /\ \E now \in {Becomes(heap, [tl EXCEPT !["cur"] = tl["res"]], ext)} :
          heap' = now.heap /\ tl' = now.tl /\ ext' = now.ext
    /\ UNCHANGED <<input, last>>

Next ==
    \/ DoFromSegments
    \/ DoFromSegmentsWithGaps
    \/ DoSlice
    \/ DoMergeAdjacent
    \/ DoMap
    \/ DoCrossProduct
    \/ GetDf
    \/ MutateExt
    \/ Keep

Spec == Init /\ [][Next]_vars

(* C1 as stated: every Timeline any sequence of the public operations        *)
(* returns satisfies the four invariants.                                    *)
C1_ReturnedTimelinesValid ==
    \A s \in DOMAIN tl : tl[s] # 0 => FourInvariants(heap[tl[s]].rows)

(* C10: the rows of every Timeline are the rows it was constructed with,     *)
(* whatever calls were made on it since and whatever the caller did to the   *)
(* table the df property gave it or to the list it gave the constructor.     *)
C10_Immutable ==
    \A s \in DOMAIN tl : tl[s] # 0 => heap[tl[s]].rows = heap[tl[s]].born

C10_Witness ==
    /\ ext # 0
    /\ heap[ext].rows # heap[ext].born
    /\ tl["cur"] # 0
    /\ tl["res"] # 0
    /\ tl["cur"] # tl["res"]
    /\ Len(heap[tl["cur"]].rows) = 3
    /\ Len(heap[tl["res"]].rows) = 2

====
